---- MODULE Spec2Model ----
(***************************************************************************)
(* Model of app.py (SBTET results downloader): the per-PIN fetch with its  *)
(* tenacity retry policy, the ThreadPoolExecutor loop of main(), and the   *)
(* ResultProcessor aggregations over the flattened DataFrame.              *)
(*                                                                         *)
(* Texts are sequences of one-character strings so that substring search,  *)
(* case folding, stripping and numeric parsing are computed, not assumed.  *)
(* Python dicts are functions whose DOMAIN is the dict's key set.          *)
(* GPA values are kept in tenths (8.5 is 85); NaN is the value NaN below.  *)
(***************************************************************************)
EXTENDS Integers, Sequences, FiniteSets, TLC

(* ------------------------------ bounds --------------------------------- *)
MaxKeys == 2
MaxWorkers == 2
MaxRecords == 3
MaxN == 2

(* -------------------------- program constants -------------------------- *)
MaxAttempts == 3
NaN == -1

(* ------------------------------- texts --------------------------------- *)
sEmpty == <<>>
sPass == <<"P","a","s","s">>
sPASS == <<"P","A","S","S">>
sFail == <<"F","a","i","l">>
sFirstClass == <<"F","i","r","s","t"," ","C","l","a","s","s">>
sDistinction == <<"D","i","s","t","i","n","c","t","i","o","n">>
sFirst == <<"F","i","r","s","t">>
sNotFound == <<"N","o","t"," ","F","o","u","n","d">>
sDriverError == <<"D","r","i","v","e","r"," ","E","r","r","o","r">>
sCM == <<"C","M">>
sEC == <<"E","C">>
sCMpadded == <<" ","C","M"," ">>
sP == <<"P">>
sF == <<"F">>
sMath == <<"M","a","t","h">>
sPhy == <<"P","h","y">>
sRavi == <<"R","a","v","i">>
s85 == <<"8",".","5">>
s91 == <<"9",".","1">>
sAB == <<"A","B">>

PassPatterns == <<sPass, sDistinction, sFirst>>

LowerChar(c) ==
  CASE c = "A" -> "a" [] c = "B" -> "b" [] c = "C" -> "c" [] c = "D" -> "d"
    [] c = "E" -> "e" [] c = "F" -> "f" [] c = "M" -> "m" [] c = "N" -> "n"
    [] c = "P" -> "p" [] c = "R" -> "r" [] c = "S" -> "s" [] OTHER -> c

Lower(s) == [k \in 1..Len(s) |-> LowerChar(s[k])]

\* Python `p in x`: p occurs in x as a contiguous substring.
Contains(x, p) ==
  \E k \in 0..(Len(x) - Len(p)) : SubSeq(x, k + 1, k + Len(p)) = p

\* str.strip(): leading and trailing blanks removed.
RECURSIVE LStrip(_)
LStrip(s) == IF s # <<>> /\ Head(s) = " " THEN LStrip(Tail(s)) ELSE s

RECURSIVE RStrip(_)
RStrip(s) ==
  IF s # <<>> /\ s[Len(s)] = " " THEN RStrip(SubSeq(s, 1, Len(s) - 1)) ELSE s

Strip(s) == RStrip(LStrip(s))

DigitVal(c) ==
  CASE c = "0" -> 0 [] c = "1" -> 1 [] c = "2" -> 2 [] c = "3" -> 3
    [] c = "4" -> 4 [] c = "5" -> 5 [] c = "6" -> 6 [] c = "7" -> 7
    [] c = "8" -> 8 [] c = "9" -> 9 [] OTHER -> NaN

\* pd.to_numeric(text, errors='coerce') on the texts "d" and "d.d";
\* every other text (the empty text included) is coerced to NaN.
to_numeric(s) ==
  IF Len(s) = 1 /\ DigitVal(s[1]) # NaN THEN 10 * DigitVal(s[1])
  ELSE IF Len(s) = 3 /\ s[2] = "." /\ DigitVal(s[1]) # NaN /\ DigitVal(s[3]) # NaN
       THEN 10 * DigitVal(s[1]) + DigitVal(s[3])
  ELSE NaN

(* ------------------------------- Records ------------------------------- *)
\* A result page as the driver shows it: `fields` maps the labels present
\* on the page to their raw text, `rows` are the cell texts of the rows of
\* the second table, `stale` is the index of the row whose cells cannot be
\* read (0: all rows readable).
PageFull ==
  [fields |-> ("Name" :> sRavi) @@ ("Branch" :> sCMpadded) @@ ("GPA" :> s85)
              @@ ("Result" :> sFirstClass),
   rows |-> << <<sMath, s85, s85, s85, s85, s85, sAB, sP>>,
               <<sPhy, s85, s85 >> >>,
   stale |-> 0]

PageBare ==
  [fields |-> ("Name" :> sRavi) @@ ("GPA" :> sAB) @@ ("Result" :> sFail),
   rows |-> << >>,
   stale |-> 0]

Pages == {PageFull, PageBare}

\* get_text: the stripped text of the labelled cell, "" when it is missing.
get_text(page, label) ==
  IF label \in DOMAIN page.fields THEN Strip(page.fields[label]) ELSE sEmpty

SubjectLine(cols) ==
  ("Subject Name" :> Strip(cols[1])) @@ ("SUB.Result" :> Strip(cols[8]))

\* The loop over the subject rows: a row of at least 8 cells is appended,
\* an unreadable row ends the loop with the rows appended so far.
RECURSIVE SubjectResults(_, _, _)
SubjectResults(rows, k, stale) ==
  IF k > Len(rows) \/ k = stale THEN <<>>
  ELSE (IF Len(rows[k]) >= 8 THEN <<SubjectLine(rows[k])>> ELSE <<>>)
       \o SubjectResults(rows, k + 1, stale)

extract_data(page, pin) ==
  ("PIN NUMBER" :> pin)
  @@ ("STUDENT NAME" :> get_text(page, "Name"))
  @@ ("BRANCH" :> get_text(page, "Branch"))
  @@ ("GPA" :> to_numeric(get_text(page, "GPA")))
  @@ ("RESULT" :> get_text(page, "Result"))
  @@ ("Subject Results" :> SubjectResults(page.rows, 1, page.stale))

DriverErrorRecord(pin) ==
  ("PIN NUMBER" :> pin) @@ ("RESULT" :> sDriverError) @@ ("Subject Results" :> <<>>)

NotFoundRecord(pin) ==
  ("PIN NUMBER" :> pin) @@ ("RESULT" :> sNotFound) @@ ("Subject Results" :> <<>>)

\* Record.status of the spec, read off the three dict shapes the fetch returns.
Status(r) ==
  IF "GPA" \in DOMAIN r THEN "Resolved"
  ELSE IF r["RESULT"] = sDriverError THEN "Error"
  ELSE "NotFound"

(* ------------------------------- state --------------------------------- *)
VARIABLES
  pin_list,      \* the PINs of the sidebar, in submission order
  max_workers,   \* st.session_state.max_workers
  generate_pdf,  \* the "Prepare Individual PDFs" checkbox
  phase,         \* where main() is: idle, warned, collect, draining, aborted, complete,
                 \* viewed; "call" and "processor" when a method is used on its own
  task,          \* task[k]: the future of the k-th submitted PIN
  all_results,   \* the list main() appends to
  reports,       \* the progress_bar.progress calls made so far
  raw_results,   \* st.session_state.raw_results, the input of ResultProcessor
  view,          \* what the results view rendered
  result,        \* the value returned by the last ResultProcessor method call
  met            \* history of a direct call: what each attempt so far met

vars == <<pin_list, max_workers, generate_pdf, phase, task, all_results,
          reports, raw_results, view, result, met>>

Pins == {"A", "B"}

RECURSIVE SeqsUpTo(_, _)
SeqsUpTo(S, n) ==
  IF n = 0 THEN {<<>>}
  ELSE LET shorter == SeqsUpTo(S, n - 1)
       IN shorter \cup {Append(q, x) : q \in {r \in shorter : Len(r) = n - 1}, x \in S}

NoView == [state |-> "none"]

(* ------------------------- fetch_single_result ------------------------- *)
\* _setup_driver: the driver, or None when webdriver.Chrome raises.
setup_driver(chromeStarts) == IF chromeStarts THEN "driver" ELSE "None"

\* What one attempt meets, in the order the code meets it.
AttemptKind(driver, reached, shown, pdf, markupOk, renderOk) ==
  IF driver = "None" THEN "DriverFail"
  ELSE IF ~reached THEN "PageFail"
  ELSE IF ~shown THEN "NoContainer"
  ELSE IF pdf /\ ~markupOk THEN "MarkupFail"
  ELSE IF pdf /\ ~renderOk THEN "RenderFail"
  ELSE "Data"

\* The value the body of fetch_single_result returns: the try block's
\* return, or the except block's when anything in the try block raised.
\* _save_as_pdf catches the failure of pdfkit itself.
AttemptReturn(pin, kind, page) ==
  IF kind = "DriverFail" THEN DriverErrorRecord(pin)
  ELSE IF kind \in {"Data", "RenderFail"} THEN extract_data(page, pin)
  ELSE NotFoundRecord(pin)

\* The finally block: driver.quit() runs whenever a driver was made, and
\* an exception it raises replaces the return value of the attempt.
AttemptRaises(kind, quitOk) == kind # "DriverFail" /\ ~quitOk

\* tenacity, stop_after_attempt(3) and reraise=True: the state of the future
\* after an attempt that raised.
AfterRaise(attempt) ==
  IF attempt < MaxAttempts
  THEN [st |-> "sleeping", attempt |-> attempt, ret |-> <<>>]
  ELSE [st |-> "raised", attempt |-> 0, ret |-> <<>>]

Returned(r) == [st |-> "returned", attempt |-> 0, ret |-> <<r>>]

QueuedTask == [st |-> "queued", attempt |-> 0, ret |-> <<>>]

RunningTask == [st |-> "running", attempt |-> 1, ret |-> <<>>]

InFlight == Cardinality({k \in DOMAIN task : task[k].st \in {"running", "sleeping"}})

\* A pool that starts a thread for every submitted work item.
WorkerAvailable_unbounded == TRUE

\* ThreadPoolExecutor(max_workers): a work item is taken by one of at most
\* max_workers threads, and a thread runs one work item at a time.
WorkerAvailable == InFlight < max_workers

\* A worker thread takes the oldest queued work item and enters attempt 1.
Start(k) ==
  /\ phase \in {"collect", "draining"}
  /\ k \in DOMAIN task
  /\ task[k].st = "queued"
  /\ \A j \in 1..(k - 1) : task[j].st # "queued"
  /\ WorkerAvailable
  /\ task' = [task EXCEPT ![k] = RunningTask]
  /\ UNCHANGED <<pin_list, max_workers, generate_pdf, phase, all_results,
                 reports, raw_results, view, result, met>>

\* What one attempt of fetch_single_result, from _setup_driver to the
\* finally block, can meet and leave of the future of pin: every behaviour
\* of Chrome, the site, wkhtmltopdf and driver.quit() is possible each time.
AttemptResults(pin, attempt, pdf_wanted) ==
  {LET driver == setup_driver(chromeStarts)
       kind == AttemptKind(driver, reached, shown, pdf_wanted /\ wkhtmltopdf,
                           markupOk, renderOk)
   IN [kind |-> kind, quit |-> (driver = "None" \/ quitOk),
       future |-> IF AttemptRaises(kind, quitOk) THEN AfterRaise(attempt)
                  ELSE Returned(AttemptReturn(pin, kind, page))] :
   chromeStarts \in BOOLEAN, reached \in BOOLEAN, shown \in BOOLEAN,
   wkhtmltopdf \in BOOLEAN, markupOk \in BOOLEAN, renderOk \in BOOLEAN,
   quitOk \in BOOLEAN, page \in Pages}

\* One attempt of the fetch of the k-th submitted PIN, on its worker.
Attempt(k) ==
  /\ phase \in {"collect", "draining"}
  /\ k \in DOMAIN task
  /\ task[k].st = "running"
  /\ \E o \in AttemptResults(pin_list[k], task[k].attempt, generate_pdf) :
       task' = [task EXCEPT ![k] = o.future]
  /\ UNCHANGED <<pin_list, max_workers, generate_pdf, phase, all_results,
                 reports, raw_results, view, result, met>>

\* wait_fixed(2) is over: the next attempt begins on the same worker.
Retry(k) ==
  /\ k \in DOMAIN task
  /\ task[k].st = "sleeping"
  /\ task' = [task EXCEPT ![k].st = "running", ![k].attempt = task[k].attempt + 1]
  /\ UNCHANGED <<pin_list, max_workers, generate_pdf, phase, all_results,
                 reports, raw_results, view, result, met>>

(* -------------------------------- main --------------------------------- *)
\* "Start Process": every PIN is submitted; an empty list only warns.
StartProcess ==
  /\ phase = "idle"
  /\ IF pin_list # <<>>
     THEN /\ phase' = "collect"
          /\ task' = [k \in 1..Len(pin_list) |-> QueuedTask]
     ELSE /\ phase' = "warned"
          /\ UNCHANGED task
  /\ UNCHANGED <<pin_list, max_workers, generate_pdf, all_results, reports,
                 raw_results, view, result, met>>

\* One turn of `for i, future in enumerate(future_to_pin)`: future.result()
\* of the next future in submission order has returned or raised.  After the
\* last turn the results are stored and process_complete is set.
Collect ==
  /\ phase = "collect"
  /\ LET i == Len(all_results)
         total_pins == Len(pin_list)
     IN /\ task[i + 1].st \in {"returned", "raised"}
        /\ IF task[i + 1].st = "returned"
           THEN /\ all_results' = Append(all_results, task[i + 1].ret[1])
                /\ reports' = Append(reports, [completed |-> i + 1, total |-> total_pins,
                                               pin |-> pin_list[i + 1], future |-> i + 1])
                /\ IF i + 1 = total_pins
                   THEN phase' = "complete" /\ raw_results' = all_results'
                   ELSE phase' = "collect" /\ UNCHANGED raw_results
           ELSE /\ phase' = "draining"
                /\ UNCHANGED <<all_results, reports, raw_results>>
  /\ UNCHANGED <<pin_list, max_workers, generate_pdf, task, view, result, met>>

\* The exception of future.result() leaves the `with` block once the
\* executor has shut down, which waits for every submitted work item.
Abort ==
  /\ phase = "draining"
  /\ \A k \in DOMAIN task : task[k].st \in {"returned", "raised"}
  /\ phase' = "aborted"
  /\ UNCHANGED <<pin_list, max_workers, generate_pdf, task, all_results,
                 reports, raw_results, view, result, met>>

(* --------------------------- ResultProcessor --------------------------- *)
PageEC ==
  [fields |-> ("Name" :> sRavi) @@ ("Branch" :> sEC) @@ ("GPA" :> s91)
              @@ ("Result" :> sPASS),
   rows |-> << <<sMath, s85, s85, s85, s85, s85, sAB, sF>> >>,
   stale |-> 0]

PageCM ==
  [fields |-> ("Name" :> sRavi) @@ ("Branch" :> sCM) @@ ("GPA" :> s85)
              @@ ("Result" :> sFail),
   rows |-> << <<sPhy, s85, s85, s85, s85, s85, sAB, sP>>,
               <<sMath, s85, s85, s85, s85, s85, sAB, sP>> >>,
   stale |-> 2]

AggPages == {PageFull, PageBare, PageEC, PageCM}

\* The dicts fetch_single_result can return for a PIN.
FetchedRecords ==
  {NotFoundRecord(p) : p \in Pins} \cup {DriverErrorRecord(p) : p \in Pins}
  \cup {extract_data(pg, p) : pg \in AggPages, p \in Pins}

\* {**base, **sub} for every subject line, or base alone.
Flatten(r) ==
  LET base == [c \in (DOMAIN r) \ {"Subject Results"} |-> r[c]]
      subs == r["Subject Results"]
  IN IF subs # <<>> THEN [j \in 1..Len(subs) |-> subs[j] @@ base] ELSE <<base>>

RECURSIVE FlatResults(_)
FlatResults(raw) ==
  IF raw = <<>> THEN <<>> ELSE Flatten(Head(raw)) \o FlatResults(Tail(raw))

\* pd.DataFrame(flat_results): the rows, and as columns every key of any row.
\* A cell whose row lacks the column's key is NaN.
create_dataframe(raw) ==
  LET flat == FlatResults(raw)
  IN [rows |-> flat, columns |-> UNION {DOMAIN flat[k] : k \in 1..Len(flat)}]

IsNa(row, col) == col \notin DOMAIN row \/ (col = "GPA" /\ row[col] = NaN)

empty(df) == df.rows = <<>>

\* drop_duplicates(subset=['PIN NUMBER']), keep='first'.
RECURSIVE drop_duplicates(_)
drop_duplicates(rows) ==
  IF rows = <<>> THEN <<>>
  ELSE LET n == Len(rows)
           front == drop_duplicates(SubSeq(rows, 1, n - 1))
       IN IF \E j \in 1..(n - 1) : rows[j]["PIN NUMBER"] = rows[n]["PIN NUMBER"]
          THEN front ELSE Append(front, rows[n])

\* dropna(subset=cols)
dropna(rows, cols) == SelectSeq(rows, LAMBDA row : \A c \in cols : ~IsNa(row, c))

\* Series.str.contains("Pass|Distinction|First", case=..., na=False)
str_contains(x, case) ==
  \E k \in 1..Len(PassPatterns) :
     IF case THEN Contains(x, PassPatterns[k])
     ELSE Contains(Lower(x), Lower(PassPatterns[k]))

get_summary_stats_cased(df) ==
  IF empty(df) THEN [total |-> 0, passed |-> 0, failed |-> 0]
  ELSE LET unique_students == drop_duplicates(df.rows)
           total == Cardinality({unique_students[k]["PIN NUMBER"] :
                                  k \in 1..Len(unique_students)})
           passed == Cardinality({k \in 1..Len(unique_students) :
                                   str_contains(unique_students[k]["RESULT"], TRUE)})
       IN [total |-> total, passed |-> passed, failed |-> total - passed]

get_summary_stats(df) ==
  IF empty(df) THEN [total |-> 0, passed |-> 0, failed |-> 0]
  ELSE LET unique_students == drop_duplicates(df.rows)
           total == Cardinality({unique_students[k]["PIN NUMBER"] :
                                  k \in 1..Len(unique_students)})
           passed == Cardinality({k \in 1..Len(unique_students) :
                                   str_contains(unique_students[k]["RESULT"], FALSE)})
       IN [total |-> total, passed |-> passed, failed |-> total - passed]

\* round(a / b, 0) for naturals, halves to even as numpy rounds.
RoundDiv(a, b) ==
  LET q == a \div b
      r == a % b
  IN IF 2 * r > b \/ (2 * r = b /\ q % 2 = 1) THEN q + 1 ELSE q

\* (Pass / Total * 100).round(2), kept in hundredths of a percent.
PassRate(pass, total) == RoundDiv(pass * 10000, total)

\* groupby(col)['Status'].value_counts().unstack(fill_value=0) with the
\* Pass, Fail, Total and Pass Rate columns added: one row per value of col,
\* rows whose col is NaN belonging to no group.
GroupRows(rows, col) ==
  LET keyed == dropna(rows, {col})
      groups == {keyed[k][col] : k \in 1..Len(keyed)}
      count(g, status) == Cardinality({k \in 1..Len(keyed) :
                                        keyed[k][col] = g /\ keyed[k]["Status"] = status})
  IN {[group |-> g, Pass |-> count(g, "Pass"), Fail |-> count(g, "Fail"),
       Total |-> count(g, "Pass") + count(g, "Fail"),
       PassRate |-> PassRate(count(g, "Pass"), count(g, "Pass") + count(g, "Fail"))] :
      g \in groups}

\* sort_values(by='Pass Rate (%)'): every order of the rows that is sorted
\* by pass rate; the order among equal pass rates is left open.
SortedTables(S, ascending) ==
  {t \in [1..Cardinality(S) -> S] :
     /\ \A a, b \in 1..Cardinality(S) : a # b => t[a] # t[b]
     /\ \A a \in 1..(Cardinality(S) - 1) :
          IF ascending THEN t[a].PassRate <= t[a + 1].PassRate
          ELSE t[a].PassRate >= t[a + 1].PassRate}

\* The Status column of get_branch_performance: Pass for a text holding one
\* of the patterns as written.
BranchStatus(rows) ==
  [k \in 1..Len(rows) |->
     ("Status" :> IF \E j \in 1..Len(PassPatterns) : Contains(rows[k]["RESULT"], PassPatterns[j])
                  THEN "Pass" ELSE "Fail") @@ rows[k]]

\* The set of values get_branch_performance may return: <<>> is None,
\* <<t>> is the table t.
get_branch_performance(df) ==
  IF \/ empty(df)
     \/ "BRANCH" \notin df.columns
     \/ Cardinality({df.rows[k]["BRANCH"] :
                      k \in {j \in 1..Len(df.rows) : ~IsNa(df.rows[j], "BRANCH")}}) < 1
  THEN {<<>>}
  ELSE {<<t>> : t \in SortedTables(
                        GroupRows(BranchStatus(drop_duplicates(df.rows)), "BRANCH"), FALSE)}

TopColumns == {"PIN NUMBER", "STUDENT NAME", "BRANCH", "GPA"}

Project(rows, cols) ==
  [k \in 1..Len(rows) |-> [c \in cols \cap DOMAIN rows[k] |-> rows[k][c]]]

RemoveAt(rows, k) == SubSeq(rows, 1, k - 1) \o SubSeq(rows, k + 1, Len(rows))

\* nlargest(n, 'GPA'), keep='first': the n largest in descending order,
\* the earlier row first among equal values.
RECURSIVE nlargest(_, _)
nlargest(rows, n) ==
  IF n = 0 \/ rows = <<>> THEN <<>>
  ELSE LET k == CHOOSE k \in 1..Len(rows) :
                  \A j \in 1..Len(rows) :
                     \/ rows[j]["GPA"] < rows[k]["GPA"]
                     \/ (rows[j]["GPA"] = rows[k]["GPA"] /\ j >= k)
       IN <<rows[k]>> \o nlargest(RemoveAt(rows, k), n - 1)

get_top_performers_dedup_first(df, n) ==
  IF empty(df) \/ "GPA" \notin df.columns THEN <<>>
  ELSE nlargest(dropna(drop_duplicates(Project(df.rows, TopColumns)), {"GPA"}), n)

get_top_performers(df, n) ==
  IF empty(df) \/ "GPA" \notin df.columns THEN <<>>
  ELSE nlargest(drop_duplicates(dropna(Project(df.rows, TopColumns), {"GPA"})), n)

\* The Status column of get_subject_analysis: Pass for 'P' alone.
SubjectStatus(rows) ==
  [k \in 1..Len(rows) |->
     ("Status" :> IF rows[k]["SUB.Result"] = sP THEN "Pass" ELSE "Fail") @@ rows[k]]

get_subject_analysis(df) ==
  IF empty(df) \/ "Subject Name" \notin df.columns THEN {<<>>}
  ELSE {<<t>> : t \in SortedTables(
                        GroupRows(SubjectStatus(dropna(df.rows, {"Subject Name", "SUB.Result"})),
                                  "Subject Name"), TRUE)}

\* processor.df['GPA'].dropna() of the Analytics tab.
gpa_data(df) ==
  LET rows == dropna(df.rows, {"GPA"}) IN [k \in 1..Len(rows) |-> rows[k]["GPA"]]

\* The results view of main(): the Summary tab, then the Analytics tab.
\* df['GPA'] raises KeyError when no row of the frame has a GPA key, and
\* the rest of the view is then not rendered.
RenderedViews(raw) ==
  LET df == create_dataframe(raw)
      stats == get_summary_stats(df)
  IN IF "GPA" \notin df.columns
     THEN {[state |-> "KeyError", stats |-> stats, branch_perf |-> b] :
           b \in get_branch_performance(df)}
     ELSE {[state |-> "rendered", stats |-> stats, branch_perf |-> b,
            gpa_data |-> gpa_data(df), top_10 |-> get_top_performers(df, 10),
            subject_analysis |-> sa] :
           b \in get_branch_performance(df), sa \in get_subject_analysis(df)}

RenderResults ==
  /\ phase = "complete"
  /\ phase' = "viewed"
  /\ view' \in RenderedViews(raw_results)
  /\ UNCHANGED <<pin_list, max_workers, generate_pdf, task, all_results,
                 reports, raw_results, result, met>>

(* ------------------------- the run of main() --------------------------- *)
NoResult == [op |-> "none"]

Init ==
  /\ pin_list \in SeqsUpTo(Pins, MaxKeys)
  /\ max_workers \in 1..MaxWorkers
  /\ generate_pdf \in BOOLEAN
  /\ phase = "idle"
  /\ task = <<>>
  /\ all_results = <<>>
  /\ reports = <<>>
  /\ raw_results = <<>>
  /\ view = NoView
  /\ result = NoResult
  /\ met = <<>>

Next ==
  \/ StartProcess
  \/ \E k \in 1..(MaxKeys + 1) : Start(k)
  \/ \E k \in 1..(MaxKeys + 1) : Attempt(k)
  \/ \E k \in 1..(MaxKeys + 1) : Retry(k)
  \/ Collect
  \/ Abort
  \/ RenderResults

Spec == Init /\ [][Next]_vars

(* ------------- one direct call of fetch_single_result ------------------ *)
\* The same attempt, with what it met appended to the history of the call.
CallAttempt ==
  /\ phase = "call"
  /\ task[1].st = "running"
  /\ \E o \in AttemptResults(pin_list[1], task[1].attempt, generate_pdf) :
       /\ task' = [task EXCEPT ![1] = o.future]
       /\ met' = Append(met, [kind |-> o.kind, quit |-> o.quit])
  /\ UNCHANGED <<pin_list, max_workers, generate_pdf, phase, all_results,
                 reports, raw_results, view, result>>

InitFetch ==
  /\ pin_list \in {<<p>> : p \in Pins}
  /\ max_workers = 1
  /\ generate_pdf \in BOOLEAN
  /\ phase = "call"
  /\ task = <<RunningTask>>
  /\ all_results = <<>>
  /\ reports = <<>>
  /\ raw_results = <<>>
  /\ view = NoView
  /\ result = NoResult
  /\ met = <<>>

NextFetch == CallAttempt \/ Retry(1)

SpecFetch == InitFetch /\ [][NextFetch]_vars

(* ------------------ ResultProcessor on any fetched list ---------------- *)
CallSummary ==
  /\ phase = "processor"
  /\ result' = [op |-> "get_summary_stats",
                val |-> get_summary_stats(create_dataframe(raw_results))]
  /\ UNCHANGED <<pin_list, max_workers, generate_pdf, phase, task, all_results,
                 reports, raw_results, view, met>>

CallBranch ==
  /\ phase = "processor"
  /\ \E v \in get_branch_performance(create_dataframe(raw_results)) :
       result' = [op |-> "get_branch_performance", val |-> v]
  /\ UNCHANGED <<pin_list, max_workers, generate_pdf, phase, task, all_results,
                 reports, raw_results, view, met>>

CallTop ==
  /\ phase = "processor"
  /\ \E n \in 0..MaxN :
       result' = [op |-> "get_top_performers", n |-> n,
                  val |-> get_top_performers(create_dataframe(raw_results), n)]
  /\ UNCHANGED <<pin_list, max_workers, generate_pdf, phase, task, all_results,
                 reports, raw_results, view, met>>

CallSubject ==
  /\ phase = "processor"
  /\ \E v \in get_subject_analysis(create_dataframe(raw_results)) :
       result' = [op |-> "get_subject_analysis", val |-> v]
  /\ UNCHANGED <<pin_list, max_workers, generate_pdf, phase, task, all_results,
                 reports, raw_results, view, met>>

InitAgg ==
  /\ raw_results \in SeqsUpTo(FetchedRecords, MaxRecords)
  /\ phase = "processor"
  /\ pin_list = <<>>
  /\ max_workers = 1
  /\ generate_pdf = FALSE
  /\ task = <<>>
  /\ all_results = <<>>
  /\ reports = <<>>
  /\ view = NoView
  /\ result = NoResult
  /\ met = <<>>

NextAgg == CallSummary \/ CallBranch \/ CallTop \/ CallSubject

SpecAgg == InitAgg /\ [][NextAgg]_vars

(* ------------------------------- claims -------------------------------- *)
RunEnded == phase \in {"complete", "viewed", "aborted"}

\* C1: a run over the keys K ends with exactly |K| Records in all_results,
\* the k-th for the k-th submitted key, duplicates included, for every
\* worker limit.
C1_OneRecordPerKey ==
  RunEnded =>
    /\ Len(all_results) = Len(pin_list)
    /\ \A k \in 1..Len(all_results) : all_results[k]["PIN NUMBER"] = pin_list[k]

MechanismFailures == {"DriverFail", "PageFail"}

CallEnded == phase = "call" /\ task[1].st \in {"returned", "raised"}

\* C2: a call whose last attempt met a mechanism failure (the driver did not
\* start, the page or its input fields were not reached) ended only because
\* the budget of 3 attempts was used up, and it returned an Error Record.
C2_MechanismFailureRetried ==
  (CallEnded /\ met[Len(met)].kind \in MechanismFailures) =>
    /\ Len(met) = MaxAttempts
    /\ task[1].st = "returned"
    /\ Status(task[1].ret[1]) = "Error"

\* C3: fetch_single_result never raises to its caller, whatever the driver
\* does, so future.result() never raises in main() and no run is aborted.
C3_NeverRaises ==
  /\ \A k \in DOMAIN task : task[k].st # "raised"
  /\ phase \notin {"draining", "aborted"}

\* C4: an attempt that reached the page and did not see the result container
\* is the last attempt of its call, and the call returns a NotFound Record.
C4_NotFoundTerminal ==
  phase = "call" =>
    \A j \in 1..Len(met) :
      met[j].kind = "NoContainer" =>
        /\ j = Len(met)
        /\ task[1].st = "returned"
        /\ Status(task[1].ret[1]) = "NotFound"

\* C5: the number of fetches started and not yet returned, those waiting
\* between two attempts included, never exceeds the worker limit.
C5_InFlightBounded == InFlight <= max_workers

\* C5 witness: every worker is busy, one of them in its wait between two
\* attempts, while a submitted fetch is still queued.
C5_Witness ==
  /\ InFlight = max_workers
  /\ \E k \in DOMAIN task : task[k].st = "sleeping"
  /\ \E k \in DOMAIN task : task[k].st = "queued"

\* C6: the completed counts of the progress reports increase strictly, a
\* report names a key whose fetch has returned, and a run that has ended
\* made exactly one report with completed = total = n, its last.
C6_ProgressReports ==
  /\ \A a, b \in 1..Len(reports) : a < b => reports[a].completed < reports[b].completed
  /\ \A a \in 1..Len(reports) :
       /\ task[reports[a].future].st = "returned"
       /\ reports[a].pin = pin_list[reports[a].future]
       /\ reports[a].total = Len(pin_list)
  /\ RunEnded =>
       /\ Cardinality({a \in 1..Len(reports) : reports[a].completed = reports[a].total}) = 1
       /\ reports[Len(reports)].completed = Len(pin_list)

(* The aggregates as the specification words them, on the Record list.     *)
Identifiers(records) == {records[k]["PIN NUMBER"] : k \in 1..Len(records)}

FirstOccurrence(records, id) ==
  records[CHOOSE k \in 1..Len(records) :
            /\ records[k]["PIN NUMBER"] = id
            /\ \A j \in 1..(k - 1) : records[j]["PIN NUMBER"] # id]

ContainsIgnoringCase(x) ==
  \/ Contains(Lower(x), <<"p","a","s","s">>)
  \/ Contains(Lower(x), <<"d","i","s","t","i","n","c","t","i","o","n">>)
  \/ Contains(Lower(x), <<"f","i","r","s","t">>)

PassedIdentifiers(records) ==
  {id \in Identifiers(records) :
     ContainsIgnoringCase(FirstOccurrence(records, id)["RESULT"])}

\* C7: summary returns total = the number of distinct identifiers, passed =
\* the number of them whose first occurrence has a resultText containing
\* pass, distinction or first in any letter case, failed = total - passed;
\* all three are 0 for the empty list.
C7_Summary ==
  result.op = "get_summary_stats" =>
    /\ result.val.total = Cardinality(Identifiers(raw_results))
    /\ result.val.passed = Cardinality(PassedIdentifiers(raw_results))
    /\ result.val.failed = result.val.total - result.val.passed
    /\ result.val.passed + result.val.failed = result.val.total
    /\ 0 <= result.val.passed /\ result.val.passed <= result.val.total
    /\ raw_results = <<>> => result.val = [total |-> 0, passed |-> 0, failed |-> 0]

\* C7 witness: summary was computed on a list with a repeated identifier, a
\* passing resultText in capitals, and both passed and failed students.
C7_Witness ==
  /\ result.op = "get_summary_stats"
  /\ Cardinality(Identifiers(raw_results)) < Len(raw_results)
  /\ \E id \in Identifiers(raw_results) : FirstOccurrence(raw_results, id)["RESULT"] = sPASS
  /\ result.val.passed >= 1
  /\ result.val.failed >= 1

HasBranch(r) == "BRANCH" \in DOMAIN r /\ r["BRANCH"] # sEmpty

\* C8: every byGroup row has Total = Pass + Fail and counts exactly the
\* identifiers whose (first) Record has that branch, each once; a Record
\* without a branch value is in no row and makes no group.
C8_ByGroup ==
  (result.op = "get_branch_performance" /\ result.val # <<>>) =>
    LET table == result.val[1]
    IN \A a \in 1..Len(table) :
         /\ table[a].Total = table[a].Pass + table[a].Fail
         /\ table[a].group # sEmpty
         /\ table[a].Total =
              Cardinality({id \in Identifiers(raw_results) :
                             /\ HasBranch(FirstOccurrence(raw_results, id))
                             /\ FirstOccurrence(raw_results, id)["BRANCH"] = table[a].group})

HasGpa(r) == "GPA" \in DOMAIN r /\ r["GPA"] # NaN

Ranked(r) == <<r["PIN NUMBER"], r["STUDENT NAME"], r["BRANCH"], r["GPA"]>>

\* Records without a later Record of an earlier identifier.
DedupRecords(records) ==
  SelectSeq([k \in 1..Len(records) |-> [pos |-> k, rec |-> records[k]]],
            LAMBDA e : \A j \in 1..(e.pos - 1) :
                          records[j]["PIN NUMBER"] # e.rec["PIN NUMBER"])

WithGpa(indexed) == SelectSeq(indexed, LAMBDA e : HasGpa(e.rec))

Indexed(records) == [k \in 1..Len(records) |-> [pos |-> k, rec |-> records[k]]]

Reindex(indexed) == [k \in 1..Len(indexed) |-> [pos |-> k, rec |-> indexed[k].rec]]

\* Stable descending order by gpa, by insertion.
RECURSIVE InsertByGpa(_, _)
InsertByGpa(sorted, e) ==
  IF sorted = <<>> THEN <<e>>
  ELSE IF Head(sorted).rec["GPA"] >= e.rec["GPA"]
       THEN <<Head(sorted)>> \o InsertByGpa(Tail(sorted), e)
       ELSE <<e>> \o sorted

RECURSIVE SortByGpa(_)
SortByGpa(indexed) ==
  IF indexed = <<>> THEN <<>>
  ELSE InsertByGpa(SortByGpa(SubSeq(indexed, 1, Len(indexed) - 1)), indexed[Len(indexed)])

FirstN(sorted, n) ==
  [k \in 1..(IF n < Len(sorted) THEN n ELSE Len(sorted)) |-> Ranked(sorted[k].rec)]

TopRows(rows) == [k \in 1..Len(rows) |-> Ranked(rows[k])]

\* C9 as stated: topN is deduplicate by identifier (first occurrence), then
\* drop the rows without gpa, then sort descending by gpa keeping input
\* order among equals, then take the first n.
C9_TopNDedupThenDrop ==
  result.op = "get_top_performers" =>
    TopRows(result.val) =
      FirstN(SortByGpa(WithGpa(DedupRecords(raw_results))), result.n)

\* C9 amended: topN is drop the Records without gpa, then deduplicate by
\* identifier (first remaining occurrence), then sort descending by gpa
\* keeping input order among equals, then take the first n.
C9_TopNDropThenDedup ==
  result.op = "get_top_performers" =>
    TopRows(result.val) =
      FirstN(SortByGpa(DedupRecords(
               [k \in 1..Len(WithGpa(Indexed(raw_results))) |->
                  WithGpa(Indexed(raw_results))[k].rec])), result.n)

\* C9 witness: topN was computed on a list in which an identifier has no
\* gpa at its first occurrence and a gpa at a later one, and ranked it.
C9_Witness ==
  /\ result.op = "get_top_performers"
  /\ result.n >= 1
  /\ \E a, b \in 1..Len(raw_results) :
       /\ a < b
       /\ raw_results[a]["PIN NUMBER"] = raw_results[b]["PIN NUMBER"]
       /\ ~HasGpa(raw_results[a])
       /\ HasGpa(raw_results[b])
       /\ \E k \in 1..Len(result.val) :
            result.val[k]["PIN NUMBER"] = raw_results[b]["PIN NUMBER"]

\* C10: the results view of a completed run in which no Record is Resolved
\* renders every aggregate; none of them raises.
C10_ThinDataRenders ==
  (phase = "viewed" /\ \A k \in 1..Len(raw_results) : Status(raw_results[k]) # "Resolved")
    => view.state = "rendered"

DocumentFailures == {"MarkupFail", "RenderFail"}

\* C11: a call whose last attempt extracted the result data and then failed
\* to produce the document (reading the markup of the result region, or
\* rendering it) returns the Resolved Record with the extracted fields.
C11_DocumentFailureKeepsRecord ==
  (phase = "call" /\ task[1].st = "returned" /\ met[Len(met)].kind \in DocumentFailures) =>
    /\ Status(task[1].ret[1]) = "Resolved"
    /\ task[1].ret[1] \in {extract_data(page, pin_list[1]) : page \in Pages}

RECURSIVE SumPass(_)
SumPass(table) == IF table = <<>> THEN 0 ELSE Head(table).Pass + SumPass(Tail(table))

RECURSIVE SumFail(_)
SumFail(table) == IF table = <<>> THEN 0 ELSE Head(table).Fail + SumFail(Tail(table))

EveryFirstHasBranch(records) ==
  \A id \in Identifiers(records) : HasBranch(FirstOccurrence(records, id))

\* C12: on a Record list in which the first Record of every identifier has
\* a branch value, the Pass counts of the byGroup rows add up to summary's
\* passed and the Fail counts to summary's failed, whatever the letter case
\* of the resultText.
C12_SummaryAgreesWithByGroup ==
  (/\ result.op = "get_branch_performance"
   /\ result.val # <<>>
   /\ EveryFirstHasBranch(raw_results)) =>
    /\ SumPass(result.val[1]) = get_summary_stats(create_dataframe(raw_results)).passed
    /\ SumFail(result.val[1]) = get_summary_stats(create_dataframe(raw_results)).failed

====
